---- MODULE Spec2Model ----
(***************************************************************************)
(* A model of proof/analysis.py: the Analysis tree, its fingerprints, the  *)
(* on-disk cache and the recursive run protocol.                           *)
(*                                                                         *)
(* An Analysis object is a record in the sequence `analyses` (its index is *)
(* its identity).  The cache directory is the set `fs` of files.  A call   *)
(* of Analysis.run is single-threaded and synchronous, so one top-level    *)
(* call, with all the recursive calls it makes, is one action; what the    *)
(* call did is kept in `last` (the lines it printed, and per node the      *)
(* data it received, computed or loaded, and held).                        *)
(*                                                                         *)
(* The `data` dictionaries are mutable Python objects: during a call they  *)
(* live in a heap (a sequence of values, a reference is an index), so that *)
(* passing a reference, deep-copying and mutating in place are different   *)
(* things.  A dictionary is abstracted to the history of the step          *)
(* functions that have mutated it, on top of its initial content.          *)
(***************************************************************************)
EXTENDS Integers, Sequences, FiniteSets, TLC

VARIABLES analyses, fs, default_data, last, since, nruns, nbuilds

vars == <<analyses, fs, default_data, last, since, nruns, nbuilds>>

\* ---------------------------------------------------------------- bounds
\* the analyses of a tree, the top-level calls of run in a behaviour, and the
\* times the script is started again; once the last call of run is made the
\* tree is not changed any more, since nothing would be run on it
MaxNodes == 3
MaxRuns == 2
MaxBuilds == 1

\* func.__name__ of the step functions, and of the function the root is made of
Names == {"a", "b"}
RootNames == {"a"}
\* inspect.getsource(func) of a step function that always returns normally
Sources == {"s"}
\* the source text of a step function that reads data["i"], and raises a
\* KeyError when the dictionary has no such key
RaisingSource == "x"
AllSources == Sources \cup {RaisingSource}
\* the source text of a step function that sets data["i"]
ProvidingSource == "p"
\* the cache_dir argument of the root constructor
DefaultCacheDir == ".proof"
CacheDirs == {DefaultCacheDir}
\* initial content of a dictionary the caller passes to run
CallerData == {<<"i">>}

NoData == <<"none">>
NoNode == 0

\* ------------------------------------------------------------- the tree
Nodes(an) == 1..Len(an)

\* Analysis.__init__
NewAnalysis(name, func, parent, cache_dir) ==
    [name |-> name,
     func |-> func,
     parent |-> parent,
     cache_dir |-> cache_dir,
     next_analyses |-> <<>>,
     registered_cache_paths |-> {},
     registered_fingerprints |-> <<>>]

\* Analysis._trace: the sequence of analyses from the root to self.  _trace,
\* _root, _fingerprint and _cache_path are @memoize methods without arguments;
\* what they compute never changes for an object (name, function, parent and
\* cache_dir are set once), so each is the value its body computes
RECURSIVE trace(_, _)
trace(an, self) ==
    IF an[self].parent # NoNode
    THEN Append(trace(an, an[self].parent), self)
    ELSE <<self>>

\* Analysis._root
root(an, self) == trace(an, self)[1]

\* '\n'.join(names): the names with the delimiter between them
RECURSIVE join(_)
join(names) ==
    IF Len(names) = 0 THEN <<>>
    ELSE IF Len(names) = 1 THEN <<names[1]>>
    ELSE <<names[1], "\n">> \o join(Tail(names))

\* hashlib.md5 over the bytes fed to it, then hexdigest: a digest is taken to
\* identify the text that was hashed (no accidental MD5 collision)
md5(text) == <<"md5", text>>

\* variant: the hasher is fed the source of every function of the trace
FingerprintRecursive(an, self) ==
    md5(join([i \in 1..Len(trace(an, self)) |-> an[trace(an, self)[i]].name])
        \o [i \in 1..Len(trace(an, self)) |-> an[trace(an, self)[i]].func])

\* Analysis._fingerprint: the hasher is fed the joined names of the trace and
\* then the source of the analysis' own function
fingerprint(an, self) ==
    md5(join([i \in 1..Len(trace(an, self)) |-> an[trace(an, self)[i]].name])
        \o <<an[self].func>>)

\* variant: the file name is made of the fingerprint and the object's identity
cache_path_per_node(an, self) ==
    <<an[self].cache_dir, <<fingerprint(an, self), self>>, ".cache">>

\* Analysis._cache_path: os.path.join(cache_dir, '%s.cache' % fingerprint)
cache_path(an, self) == <<an[self].cache_dir, fingerprint(an, self), ".cache">>

\* the nodes of the subtree of n, n included
Subtree(an, n) == {m \in Nodes(an) : \E i \in 1..Len(trace(an, m)) : trace(an, m)[i] = n}

\* ----------------------------------------------------------- the files
\* fs is a set of <<path, content>>, at most one per path
Paths(files) == {f[1] : f \in files}
Content(files, path) == (CHOOSE f \in files : f[1] = path)[2]
Write(files, path, content) ==
    {f \in files : f[1] # path} \cup {<<path, content>>}

\* pickle.dumps then the bz2 writer; pickle.loads of what the bz2 reader gives
dumps(data) == <<"bz2", "pickle", data>>
Truncated == <<>>
CanLoad(content) == Len(content) = 3 /\ content[1] = "bz2" /\ content[2] = "pickle"
loads(content) == content[3]

\* glob(os.path.join(cache_dir, '*.cache'))
glob(files, cache_dir) ==
    {p \in Paths(files) : p[1] = cache_dir /\ p[3] = ".cache"}

\* Analysis._check_cache: os.path.exists(self._cache_path())
check_cache(an, files, self) == cache_path(an, self) \in Paths(files)

AtPath(an, files, self) ==
    IF ~check_cache(an, files, self) THEN "absent"
    ELSE IF CanLoad(Content(files, cache_path(an, self))) THEN "ok"
    ELSE "corrupt"

\* ------------------------------------------------------ step functions
\* self._func(local_data): the function mutates the dictionary it is given
\* in place; the mutation is recorded as the function's source appended
Raises(func, value) ==
    func = RaisingSource /\ \A i \in 1..Len(value) : value[i] \notin {"i", ProvidingSource}
Apply(func, value) == Append(value, func)

\* ------------------------------------------------------------ one call
\* The state threaded through one top-level call of run:
\*   an, fs     the analyses and the files
\*   heap       the dictionaries alive during the call
\*   local      per node, the reference its local_data is bound to
\*   log        what was printed and done, in order
\*   state      per node, the branch of run it took
\*   recv, own  per node, the content of `data` on entry and of local_data
\*              right after the node's own step
\*   held, ret  per node, the content of local_data and of `data` when its
\*              call returned
\*   found      per node, what was at its cache path when its call began:
\*              "absent", "ok" (a file that unpickles) or "corrupt"
\*   removed    the paths os.remove was called on
\*   err        "none", or the exception that is propagating
\*   kill       the node in whose _save_cache the process is killed, if any

Event(op, self) == [op |-> op, node |-> self]

\* variant: the data is used without being copied
deepcopy_alias(heap, ref) == [heap |-> heap, ref |-> ref]

\* copy.deepcopy(data): a new dictionary with the same content
deepcopy(heap, ref) == [heap |-> Append(heap, heap[ref]), ref |-> Len(heap) + 1]

\* Analysis._save_cache: the file is opened for writing (which truncates it),
\* written and closed; a process killed in between leaves it truncated
save_cache(self, ref, st) ==
    IF st.kill = self
    THEN [st EXCEPT !.fs = Write(@, cache_path(st.an, self), Truncated),
                    !.err = "killed"]
    ELSE [st EXCEPT !.fs = Write(@, cache_path(st.an, self), dumps(st.heap[ref])),
                    !.log = Append(@, Event("save", self))]

\* variant: the copy is saved before the function is called on it
execute_save_first(self, data, label, st) ==
    LET c == deepcopy(st.heap, data)
        s1 == [st EXCEPT !.heap = c.heap,
                         !.local[self] = c.ref,
                         !.state[self] = IF label = "Refreshing" THEN "ForcedRun" ELSE "NeedsRun",
                         !.log = Append(@, Event(label, self))]
        s2 == save_cache(self, c.ref, s1)
    IN  IF s2.err # "none" THEN s2
        ELSE IF Raises(st.an[self].func, s1.heap[c.ref])
        THEN [s2 EXCEPT !.err = "logic", !.log = Append(@, Event("raise", self))]
        ELSE [s2 EXCEPT !.heap[c.ref] = Apply(st.an[self].func, @),
                        !.own[self] = Apply(st.an[self].func, s1.heap[c.ref]),
                        !.log = Append(@, Event("func", self))]

\* variant: the function is called on the data itself, the copy is made after
execute_in_place(self, data, label, st) ==
    LET s1 == [st EXCEPT !.state[self] = IF label = "Refreshing" THEN "ForcedRun" ELSE "NeedsRun",
                         !.log = Append(@, Event(label, self))]
    IN  IF Raises(st.an[self].func, s1.heap[data])
        THEN [s1 EXCEPT !.err = "logic", !.log = Append(@, Event("raise", self))]
        ELSE LET s2 == [s1 EXCEPT !.heap[data] = Apply(st.an[self].func, @),
                                  !.log = Append(@, Event("func", self))]
                 c == deepcopy(s2.heap, data)
                 s3 == [s2 EXCEPT !.heap = c.heap, !.local[self] = c.ref]
                 s4 == save_cache(self, c.ref, s3)
             IN  [s4 EXCEPT !.own[self] = s3.heap[c.ref]]

\* Analysis.run, lines 190-195 and 204-209: print, deep-copy the data, call
\* the function on the copy, save the copy
execute(self, data, label, st) ==
    LET c == deepcopy(st.heap, data)
        s1 == [st EXCEPT !.heap = c.heap,
                         !.local[self] = c.ref,
                         !.state[self] = IF label = "Refreshing" THEN "ForcedRun" ELSE "NeedsRun",
                         !.log = Append(@, Event(label, self))]
    IN  IF Raises(st.an[self].func, s1.heap[c.ref])
        THEN [s1 EXCEPT !.err = "logic", !.log = Append(@, Event("raise", self))]
        ELSE LET s2 == [s1 EXCEPT !.heap[c.ref] = Apply(st.an[self].func, @),
                                  !.log = Append(@, Event("func", self))]
                 s3 == save_cache(self, c.ref, s2)
             IN  [s3 EXCEPT !.own[self] = s2.heap[c.ref]]

\* variant: a file that does not unpickle is recomputed
load_cache_or_recompute(self, data, st) ==
    IF CanLoad(Content(st.fs, cache_path(st.an, self)))
    THEN [st EXCEPT !.heap = Append(@, loads(Content(st.fs, cache_path(st.an, self)))),
                    !.local[self] = Len(st.heap) + 1,
                    !.state[self] = "CacheHit",
                    !.own[self] = loads(Content(st.fs, cache_path(st.an, self))),
                    !.log = Append(Append(@, Event("Loaded from cache", self)), Event("load", self))]
    ELSE execute(self, data, "Running", st)

\* variant: the loaded dictionary is merged into a copy of the data
load_cache_update(self, data, st) ==
    LET content == Content(st.fs, cache_path(st.an, self))
        s1 == [st EXCEPT !.state[self] = "CacheHit",
                         !.log = Append(@, Event("Loaded from cache", self))]
    IN  IF ~CanLoad(content)
        THEN [s1 EXCEPT !.err = "deserialize", !.log = Append(@, Event("raise", self))]
        ELSE [s1 EXCEPT !.heap = Append(@, st.heap[data] \o loads(content)),
                        !.local[self] = Len(st.heap) + 1,
                        !.own[self] = st.heap[data] \o loads(content),
                        !.log = Append(@, Event("load", self))]

\* Analysis.run, lines 200-202, with Analysis._load_cache: print, read the
\* file and unpickle it into a new dictionary; a file that does not unpickle
\* raises
load_cache(self, data, st) ==
    LET content == Content(st.fs, cache_path(st.an, self))
        s1 == [st EXCEPT !.state[self] = "CacheHit",
                         !.log = Append(@, Event("Loaded from cache", self))]
    IN  IF ~CanLoad(content)
        THEN [s1 EXCEPT !.err = "deserialize", !.log = Append(@, Event("raise", self))]
        ELSE [s1 EXCEPT !.heap = Append(@, loads(content)),
                        !.local[self] = Len(st.heap) + 1,
                        !.own[self] = loads(content),
                        !.log = Append(@, Event("load", self))]

\* variant: the cache is looked at before refresh is
branch_cache_first(refresh, exists) ==
    IF exists THEN "Loaded from cache"
    ELSE IF refresh THEN "Refreshing"
    ELSE "Running"

\* Analysis.run, lines 189, 196, 199, 203: the branch taken, named by the
\* line it prints
branch(refresh, exists) ==
    IF refresh THEN "Refreshing"
    ELSE IF exists THEN "Loaded from cache"
    ELSE "Running"

\* variant: a cache miss does not set refresh
next_refresh_unchanged(refresh, exists) == refresh

\* Analysis.run, lines 211, 214: the refresh the dependents are run with
next_refresh(refresh, exists) == refresh \/ ~exists

\* variant: the path joins the list of the node itself
register_cache_on_self(an, self, rootnode, path) ==
    [an EXCEPT ![self].registered_cache_paths = @ \cup {path}]

\* Analysis.run, line 216, with Analysis._register_cache: the path of self
\* joins the list of the root
register_cache(an, self, rootnode, path) ==
    [an EXCEPT ![rootnode].registered_cache_paths = @ \cup {path}]

\* Analysis._cleanup_cache_files: every *.cache file of the directory that is
\* not in the root's list is removed
cleanup_cache_files(self, st) ==
    LET stale == {p \in glob(st.fs, st.an[self].cache_dir) :
                    p \notin st.an[self].registered_cache_paths}
    IN  [st EXCEPT !.fs = {f \in @ : f[1] \notin stale},
                   !.removed = @ \cup stale,
                   !.log = Append(@, Event("cleanup", self))]

\* variant: every node cleans up
is_any(an, self) == TRUE

\* Analysis.run, line 218: self._root() is self
is_root(an, self) == root(an, self) = self

RECURSIVE run(_, _, _, _)
RECURSIVE run_next(_, _, _, _)

\* Analysis.run, lines 213-214: the dependents, in the order they were
\* attached, each with this node's local_data
run_next(self, i, refresh, st) ==
    IF st.err # "none" \/ i > Len(st.an[self].next_analyses) THEN st
    ELSE run_next(self, i + 1, refresh,
                  run(st.an[self].next_analyses[i], st.local[self], refresh, st))

\* Analysis.run
run(self, data, refresh, st) ==
    LET s0 == [st EXCEPT !.an[self].registered_fingerprints = << <<>> >>,
                         !.recv[self] = st.heap[data],
                         !.found[self] = AtPath(st.an, st.fs, self)]
        exists == check_cache(s0.an, s0.fs, self)
        s1 == IF branch(refresh, exists) = "Loaded from cache"
              THEN load_cache(self, data, s0)
              ELSE execute(self, data, branch(refresh, exists), s0)
        s2 == run_next(self, 1, next_refresh(refresh, exists), s1)
        s3 == [s2 EXCEPT !.an = register_cache(@, self, root(s2.an, self), cache_path(s2.an, self)),
                         !.log = Append(@, Event("register", self))]
        s4 == IF is_root(s3.an, self) THEN cleanup_cache_files(self, s3) ELSE s3
    IN  IF s2.err # "none" THEN s2
        ELSE [s4 EXCEPT !.held[self] = s4.heap[s4.local[self]],
                        !.ret[self] = s4.heap[data]]

\* ------------------------------------------------------------- actions
NoChange == [kind |-> "none", node |-> NoNode]
Change(kind, n) ==
    IF since.kind = "none" THEN [kind |-> kind, node |-> n]
    ELSE [kind |-> "many", node |-> NoNode]

NoRun ==
    [node |-> NoNode, default |-> TRUE, data |-> <<>>, refresh |-> FALSE,
     err |-> "none", log |-> <<>>, state |-> <<>>, recv |-> <<>>, own |-> <<>>,
     held |-> <<>>, ret |-> <<>>, found |-> <<>>, removed |-> {},
     data_after |-> <<>>]

\* the root constructor: Analysis(func, cache_dir=...)
Init ==
    /\ \E name \in RootNames, func \in AllSources, dir \in CacheDirs :
          analyses = <<NewAnalysis(name, func, NoNode, dir)>>
    /\ fs = {}
    /\ default_data = <<>>
    /\ last = NoRun
    /\ since = NoChange
    /\ nruns = 0
    /\ nbuilds = 0

\* variant: the new analysis is put in front of the dependents
then_prepend(an, self, next_func_name, next_func) ==
    [Append(an, NewAnalysis(next_func_name, next_func, self, an[self].cache_dir))
        EXCEPT ![self].next_analyses = <<Len(an) + 1>> \o @]

\* variant: the new analysis is made with the default of cache_dir
then_default_dir(an, self, next_func_name, next_func) ==
    [Append(an, NewAnalysis(next_func_name, next_func, self, DefaultCacheDir))
        EXCEPT ![self].next_analyses = Append(@, Len(an) + 1)]

\* Analysis.then
then(an, self, next_func_name, next_func) ==
    [Append(an, NewAnalysis(next_func_name, next_func, self, an[self].cache_dir))
        EXCEPT ![self].next_analyses = Append(@, Len(an) + 1)]

Then(self, name, func) ==
    /\ Len(analyses) < MaxNodes /\ nruns < MaxRuns
    /\ analyses' = then(analyses, self, name, func)
    /\ since' = Change("then", Len(analyses) + 1)
    /\ UNCHANGED <<fs, default_data, last, nruns, nbuilds>>

\* the state a top-level call starts in.  run(self, data={}, refresh=False):
\* the default of `data` is one dictionary, made when the method was defined;
\* it is object 1 of the heap, a dictionary of the caller is object 2
StartFrom(an, files, default, useDefault, data, kill) ==
    [an |-> an, fs |-> files,
     heap |-> IF useDefault THEN <<default>> ELSE <<default, data>>,
     local |-> [n \in Nodes(an) |-> 0],
     log |-> <<>>,
     state |-> [n \in Nodes(an) |-> "none"],
     recv |-> [n \in Nodes(an) |-> NoData],
     own |-> [n \in Nodes(an) |-> NoData],
     held |-> [n \in Nodes(an) |-> NoData],
     ret |-> [n \in Nodes(an) |-> NoData],
     found |-> [n \in Nodes(an) |-> "unvisited"],
     removed |-> {},
     err |-> "none",
     kill |-> kill]

Start(useDefault, data, kill) ==
    StartFrom(analyses, fs, default_data, useDefault, data, kill)

Observed(self, useDefault, data, refresh, r) ==
    [node |-> self, default |-> useDefault, data |-> data, refresh |-> refresh,
     err |-> r.err, log |-> r.log, state |-> r.state, recv |-> r.recv,
     own |-> r.own, held |-> r.held, ret |-> r.ret, found |-> r.found,
     removed |-> r.removed,
     data_after |-> r.heap[IF useDefault THEN 1 ELSE 2]]

\* a top-level call self.run(data, refresh), to its return or to the
\* exception that leaves it
Run(self, useDefault, data, refresh) ==
    /\ nruns < MaxRuns
    /\ \E r \in {run(self, IF useDefault THEN 1 ELSE 2, refresh,
                     Start(useDefault, data, NoNode))} :
           /\ analyses' = r.an
           /\ fs' = r.fs
           /\ default_data' = r.heap[1]
           /\ last' = Observed(self, useDefault, data, refresh, r)
    /\ since' = NoChange
    /\ nruns' = nruns + 1
    /\ UNCHANGED nbuilds

\* what a new process has after it has built the tree again: the same
\* analyses, with nothing registered and no attribute set by a call of run
Fresh(an) ==
    [n \in Nodes(an) |->
        [an[n] EXCEPT !.registered_cache_paths = {}, !.registered_fingerprints = <<>>]]

\* a top-level call during which the process is killed inside _save_cache of
\* node k; the script is then started again and builds the same tree
Killed(self, useDefault, data, refresh, k) ==
    /\ nruns < MaxRuns
    /\ nbuilds < MaxBuilds
    /\ \E r \in {run(self, IF useDefault THEN 1 ELSE 2, refresh,
                     Start(useDefault, data, k))} :
           /\ r.err = "killed"
           /\ analyses' = Fresh(analyses)
           /\ fs' = r.fs
           /\ last' = Observed(self, useDefault, data, refresh, r)
    /\ default_data' = <<>>
    /\ since' = NoChange
    /\ nruns' = nruns + 1
    /\ nbuilds' = nbuilds + 1

\* the script is started again and builds the same tree
Restart ==
    /\ nbuilds < MaxBuilds /\ nruns < MaxRuns
    /\ analyses' = Fresh(analyses)
    /\ default_data' = <<>>
    /\ since' = Change("restart", NoNode)
    /\ nbuilds' = nbuilds + 1
    /\ UNCHANGED <<fs, last, nruns>>

\* the script is edited, one step function given another body, and started
EditLogic(n, func) ==
    /\ nbuilds < MaxBuilds /\ nruns < MaxRuns
    /\ func # analyses[n].func
    /\ analyses' = [Fresh(analyses) EXCEPT ![n].func = func]
    /\ default_data' = <<>>
    /\ since' = Change("logic", n)
    /\ nbuilds' = nbuilds + 1
    /\ UNCHANGED <<fs, last, nruns>>

\* the script is edited, one step function renamed, and started
EditName(n, name) ==
    /\ nbuilds < MaxBuilds /\ nruns < MaxRuns
    /\ name # analyses[n].name
    /\ analyses' = [Fresh(analyses) EXCEPT ![n].name = name]
    /\ default_data' = <<>>
    /\ since' = Change("name", n)
    /\ nbuilds' = nbuilds + 1
    /\ UNCHANGED <<fs, last, nruns>>

\* the script is edited, the step attached last removed, and started
RemoveLast ==
    /\ nbuilds < MaxBuilds /\ nruns < MaxRuns
    /\ Len(analyses) > 1
    /\ analyses' =
         [n \in 1..(Len(analyses) - 1) |->
            [Fresh(analyses)[n] EXCEPT !.next_analyses =
                SelectSeq(@, LAMBDA c : c # Len(analyses))]]
    /\ default_data' = <<>>
    /\ since' = Change("remove", Len(analyses))
    /\ nbuilds' = nbuilds + 1
    /\ UNCHANGED <<fs, last, nruns>>

Next ==
    \/ \E self \in Nodes(analyses), name \in Names, func \in AllSources :
          Then(self, name, func)
    \/ \E self \in Nodes(analyses), refresh \in BOOLEAN :
          Run(self, TRUE, <<>>, refresh)
    \/ \E self \in Nodes(analyses), data \in CallerData, refresh \in BOOLEAN :
          Run(self, FALSE, data, refresh)
    \/ \E self \in Nodes(analyses), refresh \in BOOLEAN :
          \E k \in Subtree(analyses, self) : Killed(self, TRUE, <<>>, refresh, k)
    \/ Restart
    \/ \E n \in Nodes(analyses), func \in AllSources : EditLogic(n, func)
    \/ \E n \in Nodes(analyses), name \in Names : EditName(n, name)
    \/ RemoveLast

Spec == Init /\ [][Next]_vars

\* A script that builds two branches, each a step with one dependent, and
\* then runs the tree from its root: root.then(f1).then(g1), root.then(f2).then(g2)
InitTwoBranches ==
    /\ \E r \in AllSources, n1, n2, m1, m2 \in Names, f1, f2, g1, g2 \in AllSources,
          dir \in CacheDirs :
          analyses =
            then(then(then(then(<<NewAnalysis("a", r, NoNode, dir)>>,
                                1, n1, f1), 2, m1, g1), 1, n2, f2), 4, m2, g2)
    /\ fs = {}
    /\ default_data = <<>>
    /\ last = NoRun
    /\ since = NoChange
    /\ nruns = 0
    /\ nbuilds = 0

NextTwoBranches ==
    \/ \E refresh \in BOOLEAN : Run(1, TRUE, <<>>, refresh)
    \/ \E data \in CallerData, refresh \in BOOLEAN : Run(1, FALSE, data, refresh)
    \/ Restart

SpecTwoBranches == InitTwoBranches /\ [][NextTwoBranches]_vars

\* A script that makes its root with a cache_dir of its own or with the
\* default, attaches dependents and runs the tree
AttachDirs == {DefaultCacheDir, "d"}

InitAttach ==
    /\ \E name \in RootNames, func \in AllSources, dir \in AttachDirs :
          analyses = <<NewAnalysis(name, func, NoNode, dir)>>
    /\ fs = {}
    /\ default_data = <<>>
    /\ last = NoRun
    /\ since = NoChange
    /\ nruns = 0
    /\ nbuilds = 0

NextAttach ==
    \/ \E self \in Nodes(analyses), name \in Names, func \in AllSources :
          Then(self, name, func)
    \/ \E self \in Nodes(analyses), refresh \in BOOLEAN :
          Run(self, TRUE, <<>>, refresh)

SpecAttach == InitAttach /\ [][NextAttach]_vars

\* A script that has built a tree of three analyses and run it once from the
\* root, without data, to completion, so that every analysis has its
\* artifact; after that the script is run again, from the root without data
\* or from another analysis, with or without an edit of one step function
\* (nruns counts the calls made after the first)
SourcesCached == AllSources \cup {ProvidingSource}

TreesCached ==
    {then(then(<<NewAnalysis("a", r, NoNode, DefaultCacheDir)>>, 1, n1, f1), p, n2, f2) :
        r \in SourcesCached, n1 \in Names, f1 \in SourcesCached,
        p \in {1, 2}, n2 \in Names, f2 \in SourcesCached}

InitCached ==
    /\ \E tree \in TreesCached :
          \E r \in {run(1, 1, FALSE, StartFrom(tree, {}, <<>>, TRUE, <<>>, NoNode))} :
             /\ r.err = "none"
             /\ analyses = r.an
             /\ fs = r.fs
             /\ default_data = r.heap[1]
             /\ last = Observed(1, TRUE, <<>>, FALSE, r)
    /\ since = NoChange
    /\ nruns = 0
    /\ nbuilds = 0

NextCached ==
    \/ \E refresh \in BOOLEAN : Run(1, TRUE, <<>>, refresh)
    \/ \E self \in Nodes(analyses) \ {1}, refresh \in BOOLEAN :
          Run(self, TRUE, <<>>, refresh)
    \/ \E self \in Nodes(analyses) \ {1}, data \in CallerData, refresh \in BOOLEAN :
          Run(self, FALSE, data, refresh)
    \/ \E n \in Nodes(analyses), func \in SourcesCached : EditLogic(n, func)

SpecCached == InitCached /\ [][NextCached]_vars

\* A script that builds two branches, each a step with one dependent, and a
\* last step on the root, and then runs the tree from its root without data:
\* root.then(f1).then(g1), root.then(f2).then(g2), root.then(k)
InitThreeBranches ==
    /\ \E r \in Sources, n1, n2, m1, m2 \in Names, f1, f2, g1, g2, k \in SourcesCached :
          analyses =
            then(then(then(then(then(<<NewAnalysis("a", r, NoNode, DefaultCacheDir)>>,
                                     1, n1, f1), 2, m1, g1), 1, n2, f2), 4, m2, g2),
                 1, "b", k)
    /\ fs = {}
    /\ default_data = <<>>
    /\ last = NoRun
    /\ since = NoChange
    /\ nruns = 0
    /\ nbuilds = 0

NextThreeBranches ==
    \/ \E refresh \in BOOLEAN : Run(1, TRUE, <<>>, refresh)
    \/ Restart

SpecThreeBranches == InitThreeBranches /\ [][NextThreeBranches]_vars

\* -------------------------------------------------------------- claims
HasEvent(l, op, n) == \E i \in 1..Len(l.log) : l.log[i] = Event(op, n)
Ran(l) == {n \in DOMAIN l.state : l.state[n] # "none"}
Executed(l) == {n \in DOMAIN l.state : HasEvent(l, "func", n)}
Completed(l) == l.node # NoNode /\ l.err = "none"
\* the state right after a top-level call: `last` is a call on this tree
AfterRun == last.node # NoNode /\ since.kind = "none"
RunStep == nruns' = nruns + 1
Children(n) == {analyses[n].next_analyses[i] : i \in 1..Len(analyses[n].next_analyses)}
Descendants(n) == Subtree(analyses, n) \ {n}
IsRootNode(n) == analyses[n].parent = NoNode

\* C1 (Idempotence): when a run from the root has completed and the same
\* tree is run again from the root without refresh, every node of the second
\* run is a CacheHit and holds the snapshot it held after the first run.
C1_Idempotence ==
    [][(/\ RunStep
        /\ since.kind \in {"none", "restart"}
        /\ Completed(last) /\ IsRootNode(last.node)
        /\ last'.node = last.node /\ ~last'.refresh)
       => (/\ \A n \in Nodes(analyses) : last'.state[n] = "CacheHit"
           /\ Executed(last') = {}
           /\ \A n \in Nodes(analyses) : last'.held[n] = last.held[n])]_vars

\* C2 (Forced cascade): a call run(data, refresh=True) on a node takes the
\* Refreshing branch at every node it reaches, whatever is in the cache
\* directory; when it completes, every node of the subtree has executed its
\* function and saved its artifact, and none was loaded from cache.
C2_ForcedCascade ==
    (AfterRun /\ last.refresh) =>
        /\ \A n \in Ran(last) : last.state[n] = "ForcedRun" /\ ~HasEvent(last, "load", n)
        /\ Ran(last) \subseteq Subtree(analyses, last.node)
        /\ Completed(last) =>
              \A n \in Subtree(analyses, last.node) :
                 /\ last.state[n] = "ForcedRun"
                 /\ HasEvent(last, "func", n)
                 /\ HasEvent(last, "save", n)
                 /\ cache_path(analyses, n) \in Paths(fs)

C2_Witness ==
    /\ AfterRun /\ last.refresh /\ Completed(last)
    /\ Cardinality(Subtree(analyses, last.node)) >= 2
    /\ \A n \in Subtree(analyses, last.node) : last.found[n] = "ok"

\* C3 (Miss cascade): in any run a node other than the one run was called on
\* is a CacheHit only if its parent was a CacheHit; under a node that is
\* NeedsRun or ForcedRun every node reached is ForcedRun, and when the run
\* completes every node of that subtree has executed its function, also when
\* an artifact for its fingerprint exists.
C3_MissCascade ==
    AfterRun =>
        /\ \A n \in Ran(last) \ {last.node} :
              /\ analyses[n].parent \in Ran(last)
              /\ last.state[n] = "CacheHit" => last.state[analyses[n].parent] = "CacheHit"
              /\ last.state[analyses[n].parent] # "CacheHit" => last.state[n] = "ForcedRun"
        /\ Completed(last) =>
              \A n \in Ran(last) : last.state[n] # "CacheHit" =>
                 \A m \in Subtree(analyses, n) :
                    last.state[m] # "CacheHit" /\ HasEvent(last, "func", m)

C3_Witness ==
    /\ AfterRun /\ Completed(last) /\ ~last.refresh
    /\ \E n \in Ran(last) :
          /\ last.state[n] = "NeedsRun"
          /\ \E m \in Children(n) : last.found[m] = "ok" /\ last.state[m] = "ForcedRun"

\* C4 (Fingerprint sensitivity): after a completed root run, when the logic
\* text of exactly one node is altered and the tree is run again from the
\* root without refresh, that node has a new fingerprint, it and all its
\* descendants execute (NeedsRun/ForcedRun), and every other node is a
\* CacheHit.
C4_FingerprintSensitivity ==
    [][/\ (since'.kind = "logic" /\ since.kind = "none") =>
             fingerprint(analyses', since'.node) # fingerprint(analyses, since'.node)
       /\ (/\ RunStep
           /\ since.kind = "logic"
           /\ Completed(last) /\ IsRootNode(last.node)
           /\ last'.node = last.node /\ ~last'.refresh /\ last'.err = "none")
          => (/\ \A m \in Subtree(analyses, since.node) :
                    /\ last'.state[m] \in {"NeedsRun", "ForcedRun"}
                    /\ HasEvent(last', "func", m)
              /\ \A m \in Nodes(analyses) \ Subtree(analyses, since.node) :
                    last'.state[m] = "CacheHit")]_vars

\* C5 (Copy isolation): every node a run reaches below the node it started at
\* receives exactly the snapshot its parent had after the parent's own step
\* (computed or loaded), so all children of one parent receive the same
\* snapshot, and the parent still holds that snapshot when it returns: no
\* mutation made in one child's subtree reaches another child's subtree.
C5_CopyIsolation ==
    AfterRun =>
        /\ \A n \in Ran(last) \ {last.node} :
              last.recv[n] = last.own[analyses[n].parent]
        /\ \A n, m \in Ran(last) \ {last.node} :
              analyses[n].parent = analyses[m].parent => last.recv[n] = last.recv[m]
        /\ Completed(last) => \A n \in Ran(last) : last.held[n] = last.own[n]

\* the parent's snapshot came from the cache and both children mutated theirs
C5_Witness ==
    /\ AfterRun /\ Completed(last)
    /\ \E p \in Ran(last) :
          /\ last.state[p] = "CacheHit"
          /\ Len(analyses[p].next_analyses) >= 2
          /\ \A c \in Children(p) : HasEvent(last, "func", c)

\* C6 (Garbage collection): when a run started at the root has completed, the
\* files of the cache directory are exactly the artifacts of the nodes that
\* registered in that run, and none of those was removed.
Touched(l) == {cache_path(analyses, l.log[i].node) :
                  i \in {j \in 1..Len(l.log) : l.log[j].op = "register"}}

C6_GarbageCollection ==
    (AfterRun /\ Completed(last) /\ IsRootNode(last.node)) =>
        /\ Paths(fs) = Touched(last)
        /\ Touched(last) = {cache_path(analyses, n) : n \in Nodes(analyses)}
        /\ last.removed \cap Touched(last) = {}

\* an artifact left by an edited step was removed, one that was loaded stayed
C6_Witness ==
    /\ AfterRun /\ Completed(last) /\ IsRootNode(last.node)
    /\ last.removed # {}
    /\ \E n \in Ran(last) : last.state[n] = "CacheHit"

\* C7 (Janitor timing): a run makes at most one cleanup pass; it makes one
\* only when it was started at the root, as the last thing it does, after
\* every node of the tree has taken its branch and registered its artifact;
\* a run started at another node removes no file.
Cleanups(l) == {i \in 1..Len(l.log) : l.log[i].op = "cleanup"}

C7_JanitorTiming ==
    AfterRun =>
        /\ Cardinality(Cleanups(last)) <= 1
        /\ \A i \in Cleanups(last) :
              /\ IsRootNode(last.node)
              /\ last.log[i].node = last.node
              /\ i = Len(last.log)
              /\ \A n \in Nodes(analyses) :
                    /\ last.state[n] # "none"
                    /\ \E j \in 1..(i - 1) : last.log[j] = Event("register", n)
        /\ ~IsRootNode(last.node) => last.removed = {} /\ Cleanups(last) = {}
        /\ last.removed # {} => Cleanups(last) # {}

\* a completed run started below the root, with a file in the directory that
\* the root has not registered
C7_Witness ==
    /\ AfterRun /\ Completed(last) /\ ~IsRootNode(last.node)
    /\ \E p \in Paths(fs) :
          p \notin analyses[root(analyses, last.node)].registered_cache_paths

\* C8 (Logic failure): when the function of a node raises, the run ends with
\* that error as the last thing it did; the node saves nothing and the file
\* at its cache path is as it was before the run; no descendant of the node is
\* reached, and nothing is reached, executed, registered or removed afterwards.
Failing(l) == l.log[Len(l.log)].node

C9_DeserializationFailure ==
    AfterRun =>
        /\ \A n \in Ran(last) :
              (last.state[n] # "ForcedRun" /\ last.found[n] = "corrupt") =>
                 /\ last.err = "deserialize"
                 /\ last.log[Len(last.log)] = Event("raise", n)
                 /\ last.state[n] = "CacheHit"
                 /\ ~HasEvent(last, "func", n) /\ ~HasEvent(last, "save", n)
                 /\ AtPath(analyses, fs, n) = "corrupt"
                 /\ \A m \in Descendants(n) : last.state[m] = "none"
        /\ last.err = "deserialize" => last.found[Failing(last)] = "corrupt"

C9_Witness ==
    /\ AfterRun /\ last.err = "deserialize"
    /\ Children(Failing(last)) # {}

\* C10 (Fingerprint dependence): a node's fingerprint is a function of the
\* names on its path from the root and of its own source text alone: any two
\* nodes, of the tree as it is or of the tree before and after any step (a
\* run, an attachment, an edit of another node's logic), that agree on both
\* have the same fingerprint.
TraceNames(an, n) == [i \in 1..Len(trace(an, n)) |-> an[trace(an, n)[i]].name]

C10_FingerprintDependence ==
    [][\A n \in Nodes(analyses), m \in Nodes(analyses') :
          /\ (TraceNames(analyses, n) = TraceNames(analyses', m)
                /\ analyses[n].func = analyses'[m].func)
             => fingerprint(analyses, n) = fingerprint(analyses', m)
          /\ (m \in Nodes(analyses)
                /\ TraceNames(analyses, n) = TraceNames(analyses, m)
                /\ analyses[n].func = analyses[m].func)
             => fingerprint(analyses, n) = fingerprint(analyses, m)]_vars

\* the logic of a node with a dependent has been altered after a run
C10_Witness ==
    /\ since.kind = "logic" /\ nruns > 0
    /\ analyses[since.node].next_analyses # <<>>

\* C11 (used_artifacts reset): when a run has completed, the list of
\* registered cache paths of the root of the tree holds exactly the paths
\* registered during that run, and none registered by an earlier run.
C11_UsedArtifactsReset ==
    (AfterRun /\ Completed(last)) =>
        analyses[root(analyses, last.node)].registered_cache_paths = Touched(last)

\* C12 (Execution order): a run that completes takes a branch at every node
\* of the subtree of the node it was started at, once each, in depth-first
\* pre-order with the dependents of a node in the order they were attached;
\* everything done in the subtree of a dependent is done before the next
\* dependent is entered; the nodes register in post-order, the started node
\* last.
RECURSIVE SortSet(_)
SortSet(S) ==
    IF S = {} THEN <<>>
    ELSE LET m == CHOOSE x \in S : \A y \in S : x <= y
         IN  <<m>> \o SortSet(S \ {m})

\* the dependents of n in the order they were made: an analysis made later
\* has a larger index
ByAttachment(n) == SortSet({m \in Nodes(analyses) : analyses[m].parent = n})

RECURSIVE PreOrder(_)
RECURSIVE PreOrderAll(_)
PreOrderAll(ns) ==
    IF Len(ns) = 0 THEN <<>> ELSE PreOrder(Head(ns)) \o PreOrderAll(Tail(ns))
PreOrder(n) == <<n>> \o PreOrderAll(ByAttachment(n))

RECURSIVE PostOrder(_)
RECURSIVE PostOrderAll(_)
PostOrderAll(ns) ==
    IF Len(ns) = 0 THEN <<>> ELSE PostOrder(Head(ns)) \o PostOrderAll(Tail(ns))
PostOrder(n) == PostOrderAll(ByAttachment(n)) \o <<n>>

IsBranch(e) == e.op \in {"Refreshing", "Running", "Loaded from cache"}
NodesOf(events) == [i \in 1..Len(events) |-> events[i].node]
Entered(l) == NodesOf(SelectSeq(l.log, IsBranch))
IsRegister(e) == e.op = "register"
Registered(l) == NodesOf(SelectSeq(l.log, IsRegister))

C13_InputNotMutated ==
    /\ default_data = <<>>
    /\ AfterRun =>
          /\ \A n \in Ran(last) : last.ret[n] # NoData => last.ret[n] = last.recv[n]
          /\ Completed(last) => \A n \in Ran(last) : last.ret[n] = last.recv[n]
          /\ last.data_after = (IF last.default THEN <<>> ELSE last.data)
          /\ last.default => last.recv[last.node] = <<>>

\* a second call without data, in which the started node and a dependent
\* both called their function
C13_Witness ==
    /\ AfterRun /\ Completed(last) /\ nruns >= 2
    /\ last.default
    /\ HasEvent(last, "func", last.node)
    /\ \E c \in Children(last.node) : HasEvent(last, "func", c)

\* C14 (Shared cache entry): the cache path is made of the cache_dir and the
\* fingerprint alone; two different nodes with the same cache_dir, the same
\* names from the root and the same source have one cache path, and once one
\* of them has saved its artifact, the other, when it is reached without
\* refresh (later in that run, or as the node the next run is started at), is
\* a CacheHit and loads what was saved there.
Shares(n, m) ==
    /\ n # m
    /\ analyses[n].cache_dir = analyses[m].cache_dir
    /\ TraceNames(analyses, n) = TraceNames(analyses, m)
    /\ analyses[n].func = analyses[m].func

\* the node whose save was the last on the path of m before position j
LastSaver(l, m, j) ==
    LET saves == {k \in 1..(j - 1) :
                    /\ l.log[k].op = "save"
                    /\ cache_path(analyses, l.log[k].node) = cache_path(analyses, m)}
    IN  l.log[CHOOSE k \in saves : \A k2 \in saves : k2 <= k].node

C14_SharedCacheEntry ==
    [][RunStep =>
          /\ \A n, m \in Nodes(analyses) :
                /\ Shares(n, m) => cache_path(analyses, n) = cache_path(analyses, m)
                /\ (cache_path(analyses, n) = cache_path(analyses, m))
                      <=> (/\ analyses[n].cache_dir = analyses[m].cache_dir
                           /\ fingerprint(analyses, n) = fingerprint(analyses, m))
          /\ \A n, m \in Ran(last') :
                (Shares(n, m) /\ last'.state[m] # "ForcedRun") =>
                   \A i, j \in 1..Len(last'.log) :
                      (/\ i < j
                       /\ last'.log[i] = Event("save", n)
                       /\ last'.log[j].node = m /\ IsBranch(last'.log[j]))
                      => (/\ last'.state[m] = "CacheHit"
                          /\ HasEvent(last', "load", m)
                          /\ last'.own[m] = last'.own[LastSaver(last', m, j)])
          /\ (since.kind \in {"none", "restart"} /\ Completed(last) /\ ~last'.refresh)
             => \A n \in Ran(last) :
                   (Shares(n, last'.node) /\ HasEvent(last, "save", n))
                   => (/\ last'.state[last'.node] = "CacheHit"
                       /\ HasEvent(last', "load", last'.node)
                       /\ last'.own[last'.node]
                            = loads(Content(fs, cache_path(analyses, n))))]_vars

\* in one run a node saved its artifact and another node, reached without
\* refresh, loaded it
C14_Witness ==
    /\ AfterRun /\ Completed(last)
    /\ \E n, m \in Ran(last) :
          /\ Shares(n, m)
          /\ HasEvent(last, "save", n)
          /\ last.state[m] = "CacheHit" /\ HasEvent(last, "load", m)

\* C15 (Tree shape): whatever was constructed and attached, every node is
\* the root or has one parent, made before it; following the parent links
\* ends at the root (no cycle); a node is exactly once in the dependents of
\* its parent and nowhere else, the dependents being in the order they were
\* attached; a node has the cache_dir of its parent; the trace of a node is
\* the path from the root to it, and no attachment or run changes the trace
\* of a node that exists.
RECURSIVE Up(_, _, _)
Up(an, n, k) ==
    IF k = 0 \/ n = NoNode THEN n ELSE Up(an, an[n].parent, k - 1)

Occurrences(seq, x) == Cardinality({i \in 1..Len(seq) : seq[i] = x})

ShapeOK(an) ==
    /\ Cardinality({n \in Nodes(an) : an[n].parent = NoNode}) = 1
    /\ \A n \in Nodes(an) :
          /\ an[n].parent = NoNode \/ an[n].parent \in Nodes(an) \ {n}
          /\ Up(an, n, Len(an)) = NoNode
          /\ \A p \in Nodes(an) :
                Occurrences(an[p].next_analyses, n) = (IF an[n].parent = p THEN 1 ELSE 0)
          /\ \A i, j \in 1..Len(an[n].next_analyses) :
                i < j => an[n].next_analyses[i] < an[n].next_analyses[j]
          /\ an[n].parent # NoNode => an[n].cache_dir = an[an[n].parent].cache_dir
          /\ trace(an, n)[Len(trace(an, n))] = n
          /\ an[trace(an, n)[1]].parent = NoNode
          /\ \A i \in 2..Len(trace(an, n)) :
                an[trace(an, n)[i]].parent = trace(an, n)[i - 1]

C15_TreeShape ==
    /\ ShapeOK(analyses)
    /\ [][/\ ShapeOK(analyses')
          /\ \A n \in Nodes(analyses) \cap Nodes(analyses') :
                trace(analyses', n) = trace(analyses, n)]_vars

\* a root made with a cache_dir of its own, with a dependent that has a
\* dependent, attached after the tree was run
C15_Witness ==
    /\ Len(analyses) = 3 /\ nruns >= 1
    /\ analyses[1].cache_dir # DefaultCacheDir
    /\ analyses[3].parent = 2 /\ analyses[2].parent = 1

\* C16 (Cache transparency over completed root runs): when every call so far
\* was made on the root with the same data and completed, then in a call on
\* the root without refresh that completes every node holds the snapshot it
\* would hold had the call been made with refresh=True on the same files.
\* (The call before is `last`; with MaxRuns = 2 that is every call so far.)
SameCallAsLast ==
    \/ last.node = NoNode
    \/ /\ last.node \in Nodes(analyses) /\ IsRootNode(last.node)
       /\ last.err = "none"
       /\ last.default = last'.default /\ last.data = last'.data

C16_CacheTransparency ==
    [][(/\ RunStep
        /\ IsRootNode(last'.node) /\ ~last'.refresh /\ last'.err = "none"
        /\ SameCallAsLast)
       => \E forced \in {run(last'.node, IF last'.default THEN 1 ELSE 2, TRUE,
                             Start(last'.default, last'.data, NoNode))} :
             /\ forced.err = "none"
             /\ \A n \in Nodes(analyses) : last'.held[n] = forced.held[n]]_vars

\* C17 (No stale reuse after an aborted run): in a tree whose nodes have
\* pairwise distinct fingerprints, when a call on the root was aborted by the
\* function of a node raising after an ancestor of that node, whose artifact
\* was missing because its logic had been changed, was recomputed, then in
\* the next call on the root, without refresh and with the same data, every
\* node that is a CacheHit loads an artifact that is its function applied to
\* the snapshot its parent has in that call (to the data of the call, for
\* the root).
DistinctFingerprints ==
    \A n, m \in Nodes(analyses) :
        n # m => fingerprint(analyses, n) # fingerprint(analyses, m)

Ancestors(n) == {a \in Nodes(analyses) : n \in Subtree(analyses, a)} \ {n}

C17_NoStaleReuse ==
    [][(/\ RunStep
        /\ since.kind = "none"
        /\ last.err = "logic" /\ IsRootNode(last.node)
        /\ \E a \in Ancestors(Failing(last)) :
              HasEvent(last, "func", a) /\ last.found[a] = "absent"
        /\ DistinctFingerprints
        /\ last'.node = last.node /\ ~last'.refresh
        /\ last'.default = last.default /\ last'.data = last.data)
       => \A n \in Ran(last') :
             (last'.state[n] = "CacheHit" /\ HasEvent(last', "load", n))
             => last'.own[n] =
                   Apply(analyses[n].func,
                         IF n = last'.node THEN last'.recv[n]
                         ELSE last'.own[analyses[n].parent])]_vars

\* C18 (Runs started at a non-root node do not corrupt later root runs): on
\* a tree that is not edited, after calls that all completed, made on any
\* nodes with any data and refresh, a call on the root without refresh
\* yields at every node the snapshot a call with refresh=True and the same
\* data yields.  (Here every call on the root is made without data, and the
\* calls before are the first one and `last`.)
C18_SubtreeRunsHarmless ==
    [][(/\ RunStep
        /\ nbuilds = 0
        /\ Completed(last)
        /\ IsRootNode(last'.node) /\ ~last'.refresh)
       => \E forced \in {run(last'.node, IF last'.default THEN 1 ELSE 2, TRUE,
                             Start(last'.default, last'.data, NoNode))} :
             /\ last'.err = forced.err
             /\ \A n \in Nodes(analyses) : last'.held[n] = forced.held[n]]_vars

\* C19 (Initial snapshot ignored on CacheHit): when run is called without
\* refresh on a node whose artifact exists, the node holds the stored
\* artifact, and the data passed to the call has no effect: called with any
\* other data (none, or a dictionary of the caller) every node takes the
\* same branch and holds the same snapshot, the files written are the same
\* and so is the way the call ends.
C19_SnapshotIgnoredOnHit ==
    [][(/\ RunStep
        /\ ~last'.refresh
        /\ last'.found[last'.node] = "ok"
        /\ last'.err # "killed")
       => /\ last'.state[last'.node] = "CacheHit"
          /\ last'.own[last'.node]
               = loads(Content(fs, cache_path(analyses, last'.node)))
          /\ \A useDefault \in BOOLEAN :
                \A data \in (IF useDefault THEN {<<>>} ELSE CallerData) :
                   \E other \in {run(last'.node, IF useDefault THEN 1 ELSE 2, FALSE,
                                     Start(useDefault, data, NoNode))} :
                      /\ other.state = last'.state
                      /\ other.own = last'.own
                      /\ other.held = last'.held
                      /\ other.err = last'.err
                      /\ other.fs = fs']_vars

\* a call with a dictionary of the caller on a node whose artifact, and that
\* of a dependent, had been computed in a call without data
C19_Witness ==
    /\ AfterRun /\ Completed(last) /\ ~last.refresh /\ ~last.default
    /\ last.found[last.node] = "ok"
    /\ \A i \in 1..Len(last.own[last.node]) : last.own[last.node][i] # "i"
    /\ \E c \in Children(last.node) : last.state[c] = "CacheHit"

\* C20 (Effect of an aborted run on the cache): a call that ends with an
\* exception (of a function, or of unpickling) removes no file: the cleanup
\* is not reached and every file that was in the directory is still there;
\* and for every node that saved its artifact before the exception, the file
\* at its cache path holds the snapshot the node computed in that call.
C20_AbortedRunKeepsArtifacts ==
    [][(RunStep /\ last'.err \in {"logic", "deserialize"}) =>
          /\ last'.removed = {}
          /\ Cleanups(last') = {}
          /\ Paths(fs) \subseteq Paths(fs')
          /\ \A n \in Ran(last') :
                HasEvent(last', "save", n) =>
                   /\ cache_path(analyses, n) \in Paths(fs')
                   /\ Content(fs', cache_path(analyses, n)) = dumps(last'.own[n])]_vars

====
